---- MODULE Spec2Model ----
(***************************************************************************)
(* Model of the RexSolver optimizer backend (optimizer-backend/app.py and  *)
(* optimizer-backend/optimizer.py): the in-memory job store guarded by     *)
(* job_lock, the background flow run_optimization_jobs, the budget-point   *)
(* workers optimization_worker run by a ThreadPoolExecutor, and the two    *)
(* HTTP handlers start_job and get_job_status.                             *)
(*                                                                         *)
(* Every `with job_lock:` block of a background thread is one action       *)
(* guarded by job_lock = "free"; the local computation that precedes the   *)
(* block (the solver call, the spreadsheet parsing) is folded into it.     *)
(* get_job_status holds the lock over two steps, the shallow dict copy and *)
(* the JSON serialisation, so that what the lock protects is visible.      *)
(*                                                                         *)
(* Reals are kept exact as integers:                                       *)
(*   progress          is counted in units of 1/num_points;                *)
(*   budget point i    is max_budget * i / num_points, compared to a cost  *)
(*                     c as  num_points * c <= max_budget * i;             *)
(*   probabilities     are numerators over total_audience / epsilon.       *)
(***************************************************************************)
EXTENDS Integers, Sequences, FiniteSets, TLC

VARIABLES
    jobs,       \* app.py `jobs`: job id -> JobState dict
    job_lock,   \* app.py `job_lock`: "free" or the holder
    args,       \* job id -> arguments handed to the background thread
    flow,       \* job id -> position of run_optimization_jobs
    worker,     \* job id -> budget-point index -> task of the executor
    client,     \* the HTTP request being served and its response
    coef        \* optimizer.py: locals of one build of the reach coefficients

vars == <<jobs, job_lock, args, flow, worker, client, coef>>

\* ---------------------------------------------------------------- bounds
\* num_points is 10 in app.py; the model runs the same code with fewer
\* budget points (num_points + 1 tasks on num_points pool threads).
NumPoints == 3

\* ------------------------------------------------------- values and inputs
None == [kind |-> "None"]

JobIds == {"id1", "id2"}

PointIds == 0..NumPoints

\* The cleaned station table of the well-formed sheet (Station, Cost, Cume)
\* and its pair row (Station1, Station2, Combined Cume).
Stations == {"A", "B"}

Cost == [s \in Stations |-> 1]

Cume == [s \in Stations |-> IF s = "A" THEN 30 ELSE 25]

CombinedCume == 48

\* Uploaded files: one that is no workbook, and a workbook with two sheets of
\* which only "Data" carries the columns clean_data selects.
Files ==
    { [workbook |-> FALSE, sheet_names |-> <<>>, good |-> {}],
      [workbook |-> TRUE, sheet_names |-> <<"Data", "Notes">>, good |-> {"Data"}] }

\* Request fields as sent: the uploaded parts and the form texts.  A field
\* that was not sent is missing from the function's domain.
FileParts == {<<>>} \cup {("file" :> f) : f \in Files}

AudienceTexts == {"0", "100", "abc"}

BudgetTexts == {"2", "-2", "abc"}

SheetTexts == {"", "Data", "Notes", "Other"}

FormsOver(audiences, budgets, sheets) ==
    { a @@ b @@ c :
        a \in {<<>>} \cup {("totalAudience" :> t) : t \in audiences},
        b \in {<<>>} \cup {("budget" :> t) : t \in budgets},
        c \in {<<>>} \cup {("sheetName" :> t) : t \in sheets} }

Requests ==
    [files : FileParts, form : FormsOver(AudienceTexts, BudgetTexts, SheetTexts)]

\* -------------------------------------------------- optimizer.py: the model
\* Sum of f[s] over the finite set S.
RECURSIVE SumOver(_, _)
SumOver(f, S) ==
    IF S = {} THEN 0
    ELSE LET s == CHOOSE x \in S : TRUE IN f[s] + SumOver(f, S \ {s})

\* Probabilities are numerators over Den(ta) = ta / epsilon.  epsilon is
\* 1e-9 in the source and 1 / OneOverEpsilon here: a fixed fraction of 1,
\* whatever the audience, so that cume / ta can lie between 1 - epsilon and 1
\* for an audience above 1 / epsilon (total_audience is a Python int of any
\* size).
OneOverEpsilon == 10

Den(total_audience) == total_audience * OneOverEpsilon

\* epsilon in units of 1 / Den(ta).
epsilon(total_audience) == total_audience

\* Lines 59-63: r_i[s] = cumes[s] / total_audience, replaced by 1 - epsilon
\* when it is >= 1.0.
r_i(cumes, total_audience) ==
    [s \in DOMAIN cumes |->
        IF cumes[s] >= total_audience
        THEN Den(total_audience) - epsilon(total_audience)
        ELSE cumes[s] * OneOverEpsilon]

\* The order of str on the station names, for min() and max() of line 78.
StationRank == ("A" :> 1) @@ ("B" :> 2) @@ ("C" :> 3)

min(s1, s2) == IF StationRank[s2] < StationRank[s1] THEN s2 ELSE s1

max(s1, s2) == IF StationRank[s2] > StationRank[s1] THEN s2 ELSE s1

\* Lines 85-105, the duplication of a pair with reach r1, r2 and combined
\* reach R12.  With lambda = -ln(1 - r):  lambda_W = lambda1 + lambda2 +
\* ln(log_arg) is positive exactly when log_arg > (1 - r1)(1 - r2), and then
\* 1 - exp(-(lambda1 + lambda2 - lambda_W)) = 1 - log_arg; otherwise
\* lambda_W = 0 and the duplication is 1 - (1 - r1)(1 - r2).  The product is
\* rounded down to the unit 1 / Den.
duplication_prob(r1, r2, R12, total_audience) ==
    LET D == Den(total_audience)
        log_arg == D - r1 - r2 + R12
        independent == ((D - r1) * (D - r2)) \div D
    IN  IF log_arg > 0 /\ log_arg > independent
          THEN D - log_arg
          ELSE D - independent

\* The key is the pair as the row gives it.
PairRow_AsGiven(d, row, r, total_audience) ==
    IF row.Station1 \in DOMAIN r /\ row.Station2 \in DOMAIN r
    THEN LET dup == duplication_prob(r[row.Station1], r[row.Station2],
                                     row.CombinedCume * OneOverEpsilon,
                                     total_audience)
         IN  IF dup > 0
               THEN (<<row.Station1, row.Station2>> :> dup) @@ d
               ELSE d
    ELSE d

\* Lines 72-108, the body of the loop over pair_df: the d_ij after `row`.
PairRow(d, row, r, total_audience) ==
    IF row.Station1 \in DOMAIN r /\ row.Station2 \in DOMAIN r
    THEN LET s1 == min(row.Station1, row.Station2)
             s2 == max(row.Station1, row.Station2)
             dup == duplication_prob(r[s1], r[s2],
                                     row.CombinedCume * OneOverEpsilon,
                                     total_audience)
         IN  IF dup > 0 THEN (<<s1, s2>> :> dup) @@ d ELSE d
    ELSE d

\* The pair rows of the well-formed sheet.
pair_df == << [Station1 |-> "A", Station2 |-> "B", CombinedCume |-> CombinedCume] >>

\* d_ij after the loop over the first k rows.
RECURSIVE d_ij_rows(_, _, _, _)
d_ij_rows(rows, k, r, total_audience) ==
    IF k = 0 THEN <<>>
    ELSE PairRow(d_ij_rows(rows, k - 1, r, total_audience), rows[k], r,
                 total_audience)

\* d_ij of the job's sheet: keyed by the ordered pair, kept only when positive.
d_ij(total_audience) ==
    d_ij_rows(pair_df, Len(pair_df), r_i(Cume, total_audience), total_audience)

\* Objective value of a selection: sum r_i x_i - sum d_ij x_i x_j.
ObjVal(sel, total_audience) ==
    LET d == d_ij(total_audience)
        pairs == {p \in DOMAIN d : p[1] \in sel /\ p[2] \in sel}
    IN  SumOver(r_i(Cume, total_audience), sel) - SumOver(d, pairs)

\* The selections that satisfy the budget constraint of budget point i,
\* sum cost_s x_s <= max_budget / num_points * i.
Feasible(max_budget, i) ==
    {sel \in SUBSET Stations : NumPoints * SumOver(Cost, sel) <= max_budget * i}

\* The dict returned for a solution (status OPTIMAL, SUBOPTIMAL or TIME_LIMIT
\* with SolCount > 0).  net_reach_percentage is in units of 1/Den.
Solution(sel, total_audience) ==
    [kind |-> "result",
     plan |-> sel,
     total_cost |-> SumOver(Cost, sel),
     net_reach_percentage |-> ObjVal(sel, total_audience) * 100,
     total_gross_cume |-> SumOver(Cume, sel)]

ErrorResult(msg) == [kind |-> "error", error |-> msg]

Raised == [kind |-> "raise"]

\* Everything one call of run_gurobi_optimizer can do: return an error dict,
\* return a solution the solver found (any feasible selection: the solve is
\* best-known within its time limit), or raise.
run_gurobi_optimizer(total_audience, max_budget, i) ==
    IF total_audience <= 0
    THEN {ErrorResult("Total Audience must be a positive number.")}
    ELSE {Solution(sel, total_audience) : sel \in Feasible(max_budget, i)}
         \cup {ErrorResult("timed out without a feasible solution")}
         \cup (IF Feasible(max_budget, i) = {}
                THEN {ErrorResult("The problem is infeasible.")} ELSE {})
         \cup {ErrorResult("Optimizer failed with status code")}
         \cup {Raised}

\* ------------------------------------------------------------ app.py: state
NewJobState ==
    [status |-> "Pending",
     main_result |-> None,
     reach_curve |-> <<>>,
     progress |-> 0,
     error |-> None]

NewFlow == [pc |-> "start", next |-> 0, threads |-> 0]

\* A task of the executor: its position, the arguments executor.submit was
\* given for it (none before it is submitted) and what its solve left.
NewWorkers == [i \in PointIds |-> [pc |-> "idle", call |-> None, result |-> None]]

IdleClient == [pc |-> "idle"]

\* No build of the coefficients is being followed step by step.
NoBuild == [pc |-> "none"]

Init ==
    /\ jobs = <<>>
    /\ job_lock = "free"
    /\ args = <<>>
    /\ flow = <<>>
    /\ worker = <<>>
    /\ client = IdleClient
    /\ coef = NoBuild

\* `with job_lock:` entered and left within one action.
with_job_lock == job_lock = "free"

Range(seq) == {seq[k] : k \in DOMAIN seq}

\* ------------------------------------------------------- app.py: start_job
\* int(text) and float(text) on the texts the requests carry; a text outside
\* the domain raises ValueError, an absent field (None) raises TypeError.
IntLiteral == ("0" :> 0) @@ ("100" :> 100)

FloatLiteral == ("2" :> 2) @@ ("-2" :> (0 - 2))

Respond(op, code, body) ==
    client' = [pc |-> "done", op |-> op, code |-> code, body |-> body]

\* A generator that can hand out a token a second time.
uuid4_Reuse(store) == CHOOSE id \in JobIds : TRUE

\* str(uuid.uuid4()): a token no job of the store carries.  Tokens are
\* opaque, so the generator hands them out in one fixed order.
uuid4(store) == CHOOSE id \in JobIds \ DOMAIN store : TRUE

\* Lines 121-136: the error message the request is refused with, or "" when
\* it passes.  int() and float() are tried before the sheet name is looked at.
Refusal(req) ==
    IF "file" \notin DOMAIN req.files THEN "No file part"
    ELSE IF \/ "totalAudience" \notin DOMAIN req.form
            \/ req.form["totalAudience"] \notin DOMAIN IntLiteral
            \/ "budget" \notin DOMAIN req.form
            \/ req.form["budget"] \notin DOMAIN FloatLiteral
    THEN "Invalid Total Audience or Budget"
    ELSE IF "sheetName" \notin DOMAIN req.form \/ req.form["sheetName"] = ""
    THEN "Sheet Name is required"
    ELSE ""

\* `room` is the model's cap on the number of jobs submitted.
start_job(req, room) ==
    /\ client.pc = "idle"
    /\ IF Refusal(req) # ""
       THEN /\ Respond("start_job", 400, [error |-> Refusal(req)])
            /\ UNCHANGED <<jobs, job_lock, args, flow, worker, coef>>
       ELSE /\ room
            /\ with_job_lock
            /\ DOMAIN jobs # JobIds
            /\ LET job_id == uuid4(jobs) IN
                 /\ jobs' = (job_id :> NewJobState) @@ jobs
                 /\ args' = (job_id :>
                               [file |-> req.files["file"],
                                total_audience |->
                                    IntLiteral[req.form["totalAudience"]],
                                max_budget |-> FloatLiteral[req.form["budget"]],
                                sheet_name |-> req.form["sheetName"]]) @@ args
                 /\ flow' = (job_id :> NewFlow) @@ flow
                 /\ worker' = (job_id :> NewWorkers) @@ worker
                 /\ Respond("start_job", 200, [job_id |-> job_id])
            /\ UNCHANGED <<job_lock, coef>>

\* -------------------------------------------------- app.py: get_job_status
\* job.copy() is a shallow copy: the str, float and None values and the
\* main_result dict (never mutated once built) are fixed by the copy, while
\* reach_curve stays a reference to the list the workers append to and sort.
ShallowCopy(job_id) ==
    [status |-> jobs[job_id].status,
     main_result |-> jobs[job_id].main_result,
     reach_curve |-> [ref |-> job_id],
     progress |-> jobs[job_id].progress,
     error |-> jobs[job_id].error]

\* jsonify(copy): the JSON body, reading the list the copy refers to.
jsonify(copy) ==
    [copy EXCEPT !.reach_curve = jobs[copy.reach_curve.ref].reach_curve]

\* The copy is taken under the lock, the lock is left, and jsonify runs
\* outside the with block.
get_job_status_copy_Unlocked(job_id) ==
    /\ client.pc = "idle"
    /\ job_lock = "free"
    /\ IF job_id \notin DOMAIN jobs
       THEN client' = [pc |-> "done", op |-> "get_job_status", code |-> 404,
                       body |-> [error |-> "Job not found"],
                       job_id |-> job_id]
       ELSE client' = [pc |-> "copied", job_id |-> job_id,
                       copy |-> ShallowCopy(job_id),
                       at_copy |-> jobs[job_id]]
    /\ UNCHANGED <<jobs, job_lock, args, flow, worker, coef>>

\* Lines 163-164 and the copy of line 168: take the lock, look the job up.
get_job_status_copy(job_id) ==
    /\ client.pc = "idle"
    /\ job_lock = "free"
    /\ IF job_id \notin DOMAIN jobs
       THEN /\ client' = [pc |-> "done", op |-> "get_job_status", code |-> 404,
                          body |-> [error |-> "Job not found"],
                          job_id |-> job_id]
            /\ UNCHANGED job_lock
       ELSE /\ client' = [pc |-> "copied", job_id |-> job_id,
                          copy |-> ShallowCopy(job_id),
                          at_copy |-> jobs[job_id]]
            /\ job_lock' = "get_job_status"
    /\ UNCHANGED <<jobs, args, flow, worker, coef>>

\* jsonify of line 168, still inside the with block, then the lock is left.
get_job_status_jsonify ==
    /\ client.pc = "copied"
    /\ client' = [pc |-> "done", op |-> "get_job_status", code |-> 200,
                  body |-> jsonify(client.copy),
                  job_id |-> client.job_id, at_copy |-> client.at_copy]
    /\ job_lock' = "free"
    /\ UNCHANGED <<jobs, args, flow, worker, coef>>

\* The response has been delivered; the client may send the next request.
client_next ==
    /\ client.pc = "done"
    /\ client' = IdleClient
    /\ UNCHANGED <<jobs, job_lock, args, flow, worker, coef>>

\* ------------------------------------------- app.py: optimization_worker
\* list.sort(key=budget): a stable sort, written as the insertion of each
\* element behind the elements whose key is not larger.
RECURSIVE InsertByBudget(_, _)
InsertByBudget(p, sorted) ==
    IF sorted = <<>> THEN <<p>>
    ELSE IF p.budget < sorted[Len(sorted)].budget
         THEN Append(InsertByBudget(p, SubSeq(sorted, 1, Len(sorted) - 1)),
                     sorted[Len(sorted)])
         ELSE Append(sorted, p)

\* The list is left in the order the points were appended in.
SortByBudget_AsAppended(curve) == curve

RECURSIVE SortByBudget(_)
SortByBudget(curve) ==
    IF curve = <<>> THEN <<>>
    ELSE InsertByBudget(curve[Len(curve)],
                        SortByBudget(SubSeq(curve, 1, Len(curve) - 1)))

CurvePoint(result) ==
    [budget |-> result.total_cost, reach |-> result.net_reach_percentage]

\* Every task is called as the final run.
is_final_run_Always(i) == TRUE

\* is_final_run=(i == len(budget_points) - 1)
is_final_run(i) == i = NumPoints

\* Every task is given the default time limit of run_gurobi_optimizer.
time_limit_Default(i) == 60

\* time_limit=30+(i*15) + (i == len(budget_points) - 1)*30, in seconds.
time_limit(i) == 30 + (i * 15) + (IF i = NumPoints THEN 30 ELSE 0)

\* budget_points[i] = (max_budget / num_points) * i, in units of 1/num_points.
budget_points(max_budget) == [i \in PointIds |-> max_budget * i]

\* The arguments of the call executor.submit schedules for budget point i.
TaskCall(j, i) ==
    [current_budget |-> budget_points(args[j].max_budget)[i],
     is_final_run |-> is_final_run(i),
     time_limit |-> time_limit(i)]

\* A failed solve fails the job: the error exit also sets status and error.
WorkerUpdate_FailJob(job, final, result) ==
    IF result.kind = "raise"
    THEN [job EXCEPT !.progress = @ + 1]
    ELSE IF result.kind = "error"
    THEN [job EXCEPT !.progress = @ + 1,
                     !.status = "Error",
                     !.error = [kind |-> result.error]]
    ELSE [job EXCEPT
            !.reach_curve = SortByBudget(Append(@, CurvePoint(result))),
            !.progress = @ + 1,
            !.main_result = IF final THEN result ELSE @]

\* The except exit of line 48 leaves progress as it is.
WorkerUpdate_RaiseUncounted(job, final, result) ==
    IF result.kind = "raise"
    THEN job
    ELSE IF result.kind = "error"
    THEN [job EXCEPT !.progress = @ + 1]
    ELSE [job EXCEPT
            !.reach_curve = SortByBudget(Append(@, CurvePoint(result))),
            !.progress = @ + 1,
            !.main_result = IF final THEN result ELSE @]

\* The curve is rebuilt from the new point alone.
WorkerUpdate_ReplaceCurve(job, final, result) ==
    IF result.kind # "result"
    THEN [job EXCEPT !.progress = @ + 1]
    ELSE [job EXCEPT
            !.reach_curve = <<CurvePoint(result)>>,
            !.progress = @ + 1,
            !.main_result = IF final THEN result ELSE @]

\* WorkerUpdate without the sort of line 39.
WorkerUpdate_NoSort(job, final, result) ==
    IF result.kind # "result"
    THEN [job EXCEPT !.progress = @ + 1]
    ELSE [job EXCEPT
            !.reach_curve = Append(@, CurvePoint(result)),
            !.progress = @ + 1,
            !.main_result = IF final THEN result ELSE @]

\* The JobState after a worker called with is_final_run = `final` got
\* `result` from the solver: the three exits of optimization_worker, each one
\* critical section.
WorkerUpdate(job, final, result) ==
    IF result.kind = "raise"
    THEN [job EXCEPT !.progress = @ + 1]
    ELSE IF result.kind = "error"
    THEN [job EXCEPT !.progress = @ + 1]
    ELSE [job EXCEPT
            !.reach_curve = SortByBudget(Append(@, CurvePoint(result))),
            !.progress = @ + 1,
            !.main_result = IF final THEN result ELSE @]

\* What is left of the solver's answer once the task has settled: the
\* solution dict, or nothing (an error message or an exception is printed and
\* dropped).
Kept(result) == IF result.kind = "result" THEN result ELSE None

Running(j) == {i \in PointIds : worker[j][i].pc = "running"}

Queued(j) == {i \in PointIds : worker[j][i].pc = "queued"}

\* The pool thread that has just finished a task takes the oldest work item
\* off the executor's queue, if there is one.
TakeNext(ws) ==
    LET queued == {k \in PointIds : ws[k].pc = "queued"}
    IN  IF queued = {} THEN ws
        ELSE LET oldest == CHOOSE k \in queued : \A m \in queued : k <= m
             IN  [ws EXCEPT ![oldest].pc = "running"]

\* run_gurobi_optimizer for every call a worker can make (the audiences and
\* budgets start_job accepts, each budget point), computed once.
Solves ==
    [ta \in Range(IntLiteral), mb \in Range(FloatLiteral), i \in PointIds |->
        run_gurobi_optimizer(ta, mb, i)]

\* The worker writes its exit into every JobState of the store.
optimization_worker_EveryJob(j, i) ==
    /\ j \in DOMAIN jobs
    /\ worker[j][i].pc = "running"
    /\ with_job_lock
    /\ \E result \in Solves[args[j].total_audience, args[j].max_budget, i] :
         /\ jobs' = [k \in DOMAIN jobs |->
                WorkerUpdate(jobs[k], worker[j][i].call.is_final_run, result)]
         /\ worker' = [worker EXCEPT ![j] =
                TakeNext([@ EXCEPT ![i].pc = "done",
                                   ![i].result = Kept(result)])]
    /\ UNCHANGED <<job_lock, args, flow, client, coef>>

\* The solver call of line 24 returns or raises, and the worker runs the
\* critical section of the exit it takes.
optimization_worker(j, i) ==
    /\ j \in DOMAIN jobs
    /\ worker[j][i].pc = "running"
    /\ with_job_lock
    /\ \E result \in Solves[args[j].total_audience, args[j].max_budget, i] :
         /\ jobs' = [jobs EXCEPT ![j] =
                WorkerUpdate(@, worker[j][i].call.is_final_run, result)]
         /\ worker' = [worker EXCEPT ![j] =
                TakeNext([@ EXCEPT ![i].pc = "done",
                                   ![i].result = Kept(result)])]
    /\ UNCHANGED <<job_lock, args, flow, client, coef>>

\* ------------------------------------------ app.py: run_optimization_jobs
\* Data preparation without the sheet check of lines 67-71: read_excel is
\* called with whatever name was requested.
DataPrep_NoSheetCheck(a) ==
    IF ~a.file.workbook THEN "raise"
    ELSE IF a.sheet_name \notin a.file.good THEN "raise"
    ELSE "cleaned"

\* What lines 65-74 do with the uploaded file and the requested sheet.
DataPrep(a) ==
    IF ~a.file.workbook THEN "raise"
    ELSE IF a.sheet_name \notin Range(a.file.sheet_names) THEN "sheet not found"
    ELSE IF a.sheet_name \notin a.file.good THEN "raise"
    ELSE "cleaned"

\* Lines 62-63.
flow_preparing(j) ==
    /\ j \in DOMAIN jobs
    /\ flow[j].pc = "start"
    /\ with_job_lock
    /\ jobs' = [jobs EXCEPT ![j].status = "Preparing data..."]
    /\ flow' = [flow EXCEPT ![j].pc = "prep"]
    /\ UNCHANGED <<job_lock, args, worker, client, coef>>

\* Lines 67-71: the sheet is not in the workbook.
flow_sheet_not_found(j) ==
    /\ j \in DOMAIN jobs
    /\ flow[j].pc = "prep"
    /\ DataPrep(args[j]) = "sheet not found"
    /\ with_job_lock
    /\ jobs' = [jobs EXCEPT
                  ![j].status = "Error",
                  ![j].error = [kind |-> "Sheet not found. Available sheets:",
                                sheet |-> args[j].sheet_name,
                                available |-> args[j].file.sheet_names]]
    /\ flow' = [flow EXCEPT ![j].pc = "exit"]
    /\ UNCHANGED <<job_lock, args, worker, client, coef>>

\* The curve generation begins without the status write of lines 77-78.
flow_generating_NoStatus(j) ==
    /\ j \in DOMAIN jobs
    /\ flow[j].pc = "prep"
    /\ DataPrep(args[j]) = "cleaned"
    /\ flow' = [flow EXCEPT ![j].pc = "submit"]
    /\ UNCHANGED <<jobs, job_lock, args, worker, client, coef>>

\* Lines 73-78: the tables are cleaned and the curve generation begins.
flow_generating(j) ==
    /\ j \in DOMAIN jobs
    /\ flow[j].pc = "prep"
    /\ DataPrep(args[j]) = "cleaned"
    /\ with_job_lock
    /\ jobs' = [jobs EXCEPT ![j].status = "Generating reach curve..."]
    /\ flow' = [flow EXCEPT ![j].pc = "submit"]
    /\ UNCHANGED <<job_lock, args, worker, client, coef>>

\* ThreadPoolExecutor(max_workers=num_points)
max_workers == NumPoints

\* executor.submit starts a pool thread when none is idle and the pool has
\* fewer than max_workers threads.
IdleThread(j) == flow[j].threads > Cardinality(Running(j))

NeedsThread(j) == ~IdleThread(j) /\ flow[j].threads < max_workers

\* Lines 86-98, one executor.submit: the task is queued, and an idle or a new
\* pool thread takes it at once; with every thread busy it stays queued.
executor_submit(j) ==
    /\ j \in DOMAIN jobs
    /\ flow[j].pc = "submit"
    /\ LET i == flow[j].next
       IN  /\ worker' = [worker EXCEPT
                  ![j][i].pc =
                      IF IdleThread(j) \/ NeedsThread(j) THEN "running" ELSE "queued",
                  ![j][i].call = TaskCall(j, i)]
           /\ flow' = [flow EXCEPT
                         ![j].next = i + 1,
                         ![j].threads = IF NeedsThread(j) THEN @ + 1 ELSE @,
                         ![j].pc = IF i = NumPoints THEN "wait" ELSE "submit"]
    /\ UNCHANGED <<jobs, job_lock, args, client, coef>>

\* executor.submit raises because the pool thread cannot be started: the
\* task is queued already, and the with block is left by the exception.
executor_submit_raises(j) ==
    /\ j \in DOMAIN jobs
    /\ flow[j].pc = "submit"
    /\ NeedsThread(j)
    /\ worker' = [worker EXCEPT
                    ![j][flow[j].next].pc = "queued",
                    ![j][flow[j].next].call = TaskCall(j, flow[j].next)]
    /\ flow' = [flow EXCEPT ![j].pc = "unwind"]
    /\ UNCHANGED <<jobs, job_lock, args, client, coef>>

\* The with block left without waiting for the tasks (shutdown(wait=False)).
ShutdownReturns_NoWait(j) == TRUE

\* executor.shutdown(wait=True) at the exit of the with block: the pool
\* threads run the queue empty and are joined.
ShutdownReturns(j) ==
    /\ Running(j) = {}
    /\ flow[j].threads = 0 \/ Queued(j) = {}

\* The handler only prints: status and error are left as they are.
flow_except_Swallow(j) ==
    /\ j \in DOMAIN jobs
    /\ \/ flow[j].pc = "prep" /\ DataPrep(args[j]) = "raise"
       \/ flow[j].pc = "unwind" /\ ShutdownReturns(j)
    /\ flow' = [flow EXCEPT ![j].pc = "exit"]
    /\ UNCHANGED <<jobs, job_lock, args, worker, client, coef>>

\* The handler sets the status and leaves the error message unset.
flow_except_NoMessage(j) ==
    /\ j \in DOMAIN jobs
    /\ \/ flow[j].pc = "prep" /\ DataPrep(args[j]) = "raise"
       \/ flow[j].pc = "unwind" /\ ShutdownReturns(j)
    /\ with_job_lock
    /\ jobs' = [jobs EXCEPT ![j].status = "Error"]
    /\ flow' = [flow EXCEPT ![j].pc = "exit"]
    /\ UNCHANGED <<job_lock, args, worker, client, coef>>

\* Lines 112-116: the handler of an exception of the flow.
flow_except(j) ==
    /\ j \in DOMAIN jobs
    /\ \/ flow[j].pc = "prep" /\ DataPrep(args[j]) = "raise"
       \/ flow[j].pc = "unwind" /\ ShutdownReturns(j)
    /\ with_job_lock
    /\ jobs' = [jobs EXCEPT
                  ![j].status = "Error",
                  ![j].error = [kind |-> "An unexpected error occurred:"]]
    /\ flow' = [flow EXCEPT ![j].pc = "exit"]
    /\ UNCHANGED <<job_lock, args, worker, client, coef>>

\* Lines 101-110: every future has completed, the executor is shut down, and
\* the status becomes Completed.
flow_completed(j) ==
    /\ j \in DOMAIN jobs
    /\ flow[j].pc = "wait"
    /\ ShutdownReturns(j)
    /\ with_job_lock
    /\ jobs' = [jobs EXCEPT
                  ![j].status = IF @ # "Error" THEN "Completed" ELSE @]
    /\ flow' = [flow EXCEPT ![j].pc = "exit"]
    /\ UNCHANGED <<job_lock, args, worker, client, coef>>

\* ------------------------------------------------------------ specification
\* The requests of the client, with at most `cap` jobs submitted.
Client(requests, cap) ==
    \/ \E req \in requests : start_job(req, Cardinality(DOMAIN jobs) < cap)
    \/ \E job_id \in JobIds : get_job_status_copy(job_id)
    \/ get_job_status_jsonify
    \/ client_next

\* The background thread of job j and the tasks of its executor.
Background(j) ==
    \/ flow_preparing(j)
    \/ flow_sheet_not_found(j)
    \/ flow_generating(j)
    \/ executor_submit(j)
    \/ executor_submit_raises(j)
    \/ flow_except(j)
    \/ flow_completed(j)
    \/ \E i \in PointIds : optimization_worker(j, i)

\* One job: a single submission is accepted and runs to its end.
Next == Client(Requests, 1) \/ \E j \in JobIds : Background(j)

Spec == Init /\ [][Next]_vars

\* Several jobs at once.  Every submission carries totalAudience "0" (each
\* solve then returns its error at once) or "abc", and the budget "2", so
\* that the jobs interleave in full within a small state space.
RequestsJobs ==
    {req \in Requests :
        /\ DOMAIN req.form = {"totalAudience", "budget", "sheetName"}
        /\ req.form["totalAudience"] \in {"0", "abc"}
        /\ req.form["budget"] = "2"
        /\ req.form["sheetName"] \in {"", "Data", "Other"}}

NextJobs ==
    Client(RequestsJobs, Cardinality(JobIds)) \/ \E j \in JobIds : Background(j)

SpecJobs == Init /\ [][NextJobs]_vars

\* Fair scheduling: a thread of a job that can take a step again and again
\* (the lock is free again and again) takes it, and the handler that holds
\* the lock finishes its response.
Fairness ==
    /\ \A j \in JobIds : SF_vars(Background(j))
    /\ WF_vars(get_job_status_jsonify)

\* The liveness of a submitted job is checked with the requests start_job
\* accepts (a refused request creates no job) and the status polls.
RequestsAccepted == {req \in Requests : Refusal(req) = ""}

NextFair == Client(RequestsAccepted, 1) \/ \E j \in JobIds : Background(j)

FairSpec == Init /\ [][NextFair]_vars /\ Fairness

\* ------------------------------ optimizer.py: the coefficients, step by step
\* One call of run_gurobi_optimizer followed from its entry to the finished
\* d_ij, over station tables, audiences and pair rows of every shape.
MaxRows == 3

CumeValues == {0, 3, 19, 30}

Audiences == {0, 5, 20}

CombinedCumeValues == {10, 60}

\* The rows pair_df can hold: any two names, in either orientation, also a
\* name ("C") that is not in the cleaned station table.
PairRows ==
    [Station1 : DOMAIN StationRank, Station2 : DOMAIN StationRank,
     CombinedCume : CombinedCumeValues]

app_vars == <<jobs, job_lock, args, flow, worker, client>>

InitCoefficients ==
    /\ jobs = <<>>
    /\ job_lock = "free"
    /\ args = <<>>
    /\ flow = <<>>
    /\ worker = <<>>
    /\ client = IdleClient
    /\ coef \in [pc : {"entry"},
                 cumes : [Stations -> CumeValues],
                 total_audience : Audiences,
                 r_i : {<<>>},
                 d_ij : {<<>>},
                 rows : {0},
                 row : {None}]

\* Lines 48-49.
build_invalid_audience ==
    /\ coef.pc = "entry"
    /\ coef.total_audience <= 0
    /\ coef' = [coef EXCEPT !.pc = "error"]
    /\ UNCHANGED app_vars

\* Lines 59-63.
build_r_i ==
    /\ coef.pc = "entry"
    /\ coef.total_audience > 0
    /\ coef' = [coef EXCEPT !.pc = "pairs",
                            !.r_i = r_i(coef.cumes, coef.total_audience)]
    /\ UNCHANGED app_vars

\* Lines 72-108, one turn of the loop: iterrows yields the next row.
build_pair_row ==
    /\ coef.pc = "pairs"
    /\ coef.rows < MaxRows
    /\ \E row \in PairRows :
         coef' = [coef EXCEPT
                    !.d_ij = PairRow(@, row, coef.r_i, coef.total_audience),
                    !.rows = @ + 1,
                    !.row = row]
    /\ UNCHANGED app_vars

\* iterrows is exhausted: d_ij is handed to the Gurobi model of line 111.
build_model ==
    /\ coef.pc = "pairs"
    /\ coef' = [coef EXCEPT !.pc = "model"]
    /\ UNCHANGED app_vars

NextCoefficients ==
    \/ build_invalid_audience
    \/ build_r_i
    \/ build_pair_row
    \/ build_model

SpecCoefficients == InitCoefficients /\ [][NextCoefficients]_vars

\* ------------------------------------------------------------------ claims
Terminal(j) == jobs[j].status \in {"Completed", "Error"}

Sorted(curve) ==
    \A k \in 1..(Len(curve) - 1) : curve[k].budget <= curve[k + 1].budget

Settled(j) == {i \in PointIds : worker[j][i].pc = "done"}

Solved(j) == {i \in Settled(j) : worker[j][i].result # None}

StatusResponse ==
    client.pc = "done" /\ client.op = "get_job_status" /\ client.code = 200

\* C1: in every reachable state, also while budget-point workers are still
\* running and whatever the order they finished in, the reach_curve of every
\* job is sorted by ascending budget, and so is the curve in every status
\* response.
C1_CurveSorted ==
    /\ \A j \in DOMAIN jobs : Sorted(jobs[j].reach_curve)
    /\ StatusResponse => Sorted(client.body.reach_curve)

\* A partly generated curve with two different budgets, seen by a poll while
\* another worker is still solving.
C1_Witness ==
    /\ StatusResponse
    /\ Len(client.body.reach_curve) >= 2
    /\ client.body.reach_curve[1].budget < client.body.reach_curve[2].budget
    /\ Running(client.job_id) # {}

\* C2: progress never exceeds 1 (NumPoints units of 1/num_points) and is
\* exactly 1 when the status is Completed.
C2_ProgressAtMostOne ==
    \A j \in DOMAIN jobs :
        /\ jobs[j].progress <= NumPoints
        /\ jobs[j].status = "Completed" => jobs[j].progress = NumPoints

\* C3: once the status of a job is Completed or Error, no step changes any
\* field of its JobState, no task of the job is running or can still be
\* taken by a pool thread, and a status response whose status is terminal
\* carries exactly the JobState the store holds from then on.
C3_TerminalImmutable ==
    [][\A j \in DOMAIN jobs :
          Terminal(j) =>
            /\ jobs'[j] = jobs[j]
            /\ \A i \in PointIds : worker[j][i].pc # "running"
            /\ (\E i \in PointIds : worker[j][i].pc = "queued")
                  => flow[j].threads = 0
            /\ (StatusResponse /\ client.job_id = j
                   /\ client.body.status \in {"Completed", "Error"})
                  => client.body = jobs[j]]_vars

\* A poll answered with a Completed job that has a curve.
C3_Witness ==
    /\ StatusResponse
    /\ client.body.status = "Completed"
    /\ client.body.reach_curve # <<>>
    /\ client.body = jobs[client.job_id]

\* The flow of job j was left by an exception: the file is no workbook, the
\* sheet lacks the columns, or a task could not be handed to the pool.
FlowRaised(j) ==
    \/ ~args[j].file.workbook
    \/ /\ args[j].sheet_name \in Range(args[j].file.sheet_names)
       /\ args[j].sheet_name \notin args[j].file.good
    \/ /\ flow[j].pc \in {"unwind", "exit"}
       /\ flow[j].next <= NumPoints
       /\ \E i \in PointIds : worker[j][i].pc # "idle"

\* C4: under fair scheduling every submitted job reaches Completed or Error
\* (a terminal status is kept for good and the store is finite, so this is:
\* again and again every job of the store is terminal); the background flow
\* never ends with another status, and a flow that was left by an exception
\* in data preparation or in the scheduling step ends with status Error and
\* an error message.
C4_EventuallyTerminal ==
    /\ []<>(\A j \in DOMAIN jobs : Terminal(j))
    /\ [](\A j \in DOMAIN jobs :
            flow[j].pc = "exit" =>
              /\ Terminal(j)
              /\ FlowRaised(j) =>
                    jobs[j].status = "Error" /\ jobs[j].error # None)

\* A job whose scheduling step raised after tasks had been started, ended
\* in Error with its message.
C4_Witness ==
    \E j \in DOMAIN jobs :
        /\ flow[j].pc = "exit"
        /\ Settled(j) # {}
        /\ flow[j].next <= NumPoints
        /\ jobs[j].status = "Error"
        /\ jobs[j].error # None

Forward ==
    { <<"Pending", "Preparing data...">>,
      <<"Preparing data...", "Generating reach curve...">>,
      <<"Preparing data...", "Error">>,
      <<"Generating reach curve...", "Completed">>,
      <<"Generating reach curve...", "Error">> }

\* C5: a job is created Pending and its status only moves forward along
\* Pending -> PreparingData -> GeneratingCurve -> Completed, with Error
\* entered from PreparingData or GeneratingCurve only; no task of the job has
\* left the idle state while the status is Pending or PreparingData.
C5_StatusForward ==
    [][/\ \A j \in DOMAIN jobs :
            jobs'[j].status # jobs[j].status
              => <<jobs[j].status, jobs'[j].status>> \in Forward
       /\ \A j \in DOMAIN jobs' \ DOMAIN jobs : jobs'[j].status = "Pending"
       /\ \A j \in DOMAIN jobs' :
            (\E i \in PointIds : worker'[j][i].pc # "idle")
              => jobs'[j].status \notin {"Pending", "Preparing data..."}]_vars

\* A job that went all the way to Completed, every task settled.
C5_Witness ==
    \E j \in DOMAIN jobs :
        jobs[j].status = "Completed" /\ Settled(j) = PointIds

Count(seq, p) == Cardinality({k \in DOMAIN seq : seq[k] = p})

PointsSolved(j) == {CurvePoint(worker[j][i].result) : i \in Solved(j)}

\* C6: a budget point that is infeasible, times out, fails or raises takes
\* nothing from its siblings and never makes the job an Error: the curve
\* holds exactly the points of the tasks that settled with a solution, a
\* job all of whose tasks were handed to the pool and have settled is
\* GeneratingCurve and then Completed, and when every task failed the curve
\* is empty and main_result is null.
C6_PointFailuresContained ==
    \A j \in DOMAIN jobs :
        /\ \A p \in Range(jobs[j].reach_curve) \cup PointsSolved(j) :
              Count(jobs[j].reach_curve, p)
                = Cardinality({i \in Solved(j) :
                                 CurvePoint(worker[j][i].result) = p})
        /\ (Settled(j) = PointIds /\ flow[j].next = NumPoints + 1) =>
              /\ jobs[j].status \in {"Generating reach curve...", "Completed"}
              /\ flow[j].pc = "exit" => jobs[j].status = "Completed"
              /\ jobs[j].error = None
        /\ (Settled(j) = PointIds /\ Solved(j) = {}) =>
              jobs[j].reach_curve = <<>> /\ jobs[j].main_result = None

\* A Completed job some of whose points failed and some of whose points
\* are on the curve.
C6_Witness ==
    \E j \in DOMAIN jobs :
        /\ jobs[j].status = "Completed"
        /\ Solved(j) # {}
        /\ Settled(j) \ Solved(j) # {}
        /\ Len(jobs[j].reach_curve) = Cardinality(Solved(j))

SheetMissing(j) ==
    /\ args[j].file.workbook
    /\ \A k \in DOMAIN args[j].file.sheet_names :
          args[j].file.sheet_names[k] # args[j].sheet_name

\* C7: for a job whose requested sheet is not in the uploaded workbook, no
\* task ever leaves the idle state, reach_curve stays empty, progress stays 0
\* and main_result stays null in every state, and the flow ends with status
\* Error and a message that lists the sheets of the workbook.
C7_SheetNotFound ==
    \A j \in DOMAIN jobs :
        SheetMissing(j) =>
          /\ \A i \in PointIds : worker[j][i].pc = "idle"
          /\ jobs[j].reach_curve = <<>>
          /\ jobs[j].progress = 0
          /\ jobs[j].main_result = None
          /\ jobs[j].status \in {"Pending", "Preparing data...", "Error"}
          /\ flow[j].pc = "exit" => jobs[j].status = "Error"
          /\ jobs[j].status = "Error" =>
                jobs[j].error =
                    [kind |-> "Sheet not found. Available sheets:",
                     sheet |-> args[j].sheet_name,
                     available |-> args[j].file.sheet_names]

\* The flow of a job with a missing sheet has ended.
C7_Witness ==
    \E j \in DOMAIN jobs :
        /\ SheetMissing(j)
        /\ flow[j].pc = "exit"
        /\ jobs[j].status = "Error"
        /\ jobs[j].error.available = <<"Data", "Notes">>

NumericTexts == {"0", "100", "2", "-2"}

Invalid(req) ==
    \/ "file" \notin DOMAIN req.files
    \/ "totalAudience" \notin DOMAIN req.form
    \/ "budget" \notin DOMAIN req.form
    \/ "sheetName" \notin DOMAIN req.form
    \/ req.form["totalAudience"] \notin NumericTexts
    \/ req.form["budget"] \notin NumericTexts
    \/ req.form["sheetName"] = ""

RefusedWhenInvalid == \A req \in Requests : Invalid(req) <=> Refusal(req) # ""

StartJobStep ==
    client.pc = "idle" /\ client'.pc = "done" /\ client'.op = "start_job"

\* C8: start_job refuses exactly the requests with a missing file, a missing
\* or non-numeric total audience or budget, or a missing or empty sheet name;
\* a refused request (400) leaves the job store and the threads unchanged,
\* and an accepted one (200) adds exactly one JobState, Pending with an empty
\* curve, progress 0 and no result or error, under an id that was not in the
\* store, with its background flow not yet run and all other jobs untouched.
C8_SubmitContract ==
    [][StartJobStep =>
         /\ RefusedWhenInvalid
         /\ client'.code \in {200, 400}
         /\ client'.code = 400 => UNCHANGED <<jobs, args, flow, worker>>
         /\ client'.code = 200 =>
               LET id == client'.body.job_id
               IN  /\ id \notin DOMAIN jobs
                   /\ DOMAIN jobs' = DOMAIN jobs \cup {id}
                   /\ \A j \in DOMAIN jobs : jobs'[j] = jobs[j]
                   /\ jobs'[id] = [status |-> "Pending",
                                   main_result |-> None,
                                   reach_curve |-> <<>>,
                                   progress |-> 0,
                                   error |-> None]
                   /\ flow'[id].pc = "start"
                   /\ \A i \in PointIds : worker'[id][i].pc = "idle"]_vars

\* A submission accepted while an earlier job is generating its curve.
C8_Witness ==
    /\ client.pc = "done" /\ client.op = "start_job" /\ client.code = 200
    /\ jobs[client.body.job_id].status = "Pending"
    /\ \E j \in DOMAIN jobs : jobs[j].status = "Generating reach curve..."

\* C9: get_job_status answers an id that is not in the store with 404 and
\* changes nothing; for an id in the store the body it returns equals the
\* JobState of the one instant at which the copy was taken, reach_curve and
\* main_result included, whatever the flow and the workers do afterwards, and
\* a response once produced is not changed by them.
C9_SnapshotRaceFree ==
    [][/\ (client.pc = "idle" /\ client'.pc = "done"
             /\ client'.op = "get_job_status")
            => /\ client'.code = 404
               /\ client'.job_id \notin DOMAIN jobs
               /\ UNCHANGED <<jobs, job_lock, args, flow, worker>>
       /\ (client.pc = "idle" /\ client'.pc = "copied")
            => /\ client'.job_id \in DOMAIN jobs
               /\ client'.at_copy = jobs[client'.job_id]
               /\ UNCHANGED <<jobs, args, flow, worker>>
       /\ (client.pc = "copied" /\ client'.pc = "done")
            => /\ client'.op = "get_job_status" /\ client'.code = 200
               /\ client'.at_copy = client.at_copy
               /\ client'.body = client.at_copy
               /\ UNCHANGED <<jobs, args, flow, worker>>
       /\ (StatusResponse /\ client'.pc = "done") => client' = client]_vars

\* A response with a partial curve that the job has already moved past.
C9_Witness ==
    /\ StatusResponse
    /\ client.body = client.at_copy
    /\ client.body.reach_curve # <<>>
    /\ jobs[client.job_id].reach_curve # client.body.reach_curve

\* C10: with every station cost > 0 the task of budget point 0 settles
\* without a solution (its solve is Infeasible), so it adds no curve point.
C10_ZeroBudgetAbsent ==
    \A j \in DOMAIN jobs :
        ((\A st \in Stations : Cost[st] > 0) /\ worker[j][0].pc = "done")
          => worker[j][0].result = None

\* C11: every budget-point task of a job starts when it is handed to the
\* pool: a task that executor.submit accepted (the call did not raise) is
\* running at once, whatever the other tasks of the job are doing, so that
\* all num_points + 1 tasks can run at the same time.
C11_AllPointsConcurrent ==
    [][\A j \in DOMAIN jobs : \A i \in PointIds :
          (worker[j][i].pc = "idle" /\ worker'[j][i].pc # "idle"
             /\ flow'[j].pc # "unwind")
            => worker'[j][i].pc = "running"]_vars

\* The tasks of job j that were handed to the pool.
Handed(j) == {i \in PointIds : worker[j][i].pc # "idle"}

Flagged(j) == {i \in Handed(j) : worker[j][i].call.is_final_run}

C13_MainResultOfFinalPoint ==
    /\ [](\A j \in DOMAIN jobs :
            /\ jobs[j].main_result # None =>
                  /\ worker[j][NumPoints].pc = "done"
                  /\ jobs[j].main_result = worker[j][NumPoints].result
            /\ jobs[j].status = "Completed" =>
                  (jobs[j].main_result # None
                      <=> worker[j][NumPoints].result # None))
    /\ [][\A j \in DOMAIN jobs :
            jobs'[j].main_result # jobs[j].main_result =>
              /\ jobs[j].main_result = None
              /\ worker[j][NumPoints].pc = "running"
              /\ worker'[j][NumPoints].pc = "done"
              /\ jobs'[j].main_result = worker'[j][NumPoints].result
              /\ jobs'[j].main_result.kind = "result"]_vars

\* The maximum-budget task has set main_result to its full plan while the
\* curve holds the point of another task and a third task is still solving.
C13_Witness ==
    \E j \in DOMAIN jobs :
        /\ jobs[j].main_result # None
        /\ jobs[j].main_result.plan = Stations
        /\ Len(jobs[j].reach_curve) >= 2
        /\ Running(j) # {}

\* C14: for every station with cume >= 0 and every total audience > 0 the
\* reach probability the model is built with is min(cume / ta, 1 - epsilon),
\* so 0 <= r <= 1 - epsilon, also for cume / ta between 1 - epsilon and 1 and
\* above 1.
C14_ReachClamped ==
    coef.pc \in {"pairs", "model"} =>
      \A s \in DOMAIN coef.cumes :
        LET D == Den(coef.total_audience)
            top == D - epsilon(coef.total_audience)
            raw == coef.cumes[s] * OneOverEpsilon
        IN  /\ 0 <= coef.r_i[s]
            /\ coef.r_i[s] <= top
            /\ coef.r_i[s] = IF raw <= top THEN raw ELSE top

\* C15: in every reachable state the progress of a job is the number of its
\* tasks that have settled, in units of 1/num_points, whatever exit each task
\* took and whatever the order they finished in; a step changes progress only
\* by settling tasks, one unit each, so progress never decreases.
C15_ProgressCountsSettled ==
    /\ [](\A j \in DOMAIN jobs : jobs[j].progress = Cardinality(Settled(j)))
    /\ [][\A j \in DOMAIN jobs :
            LET settling == {i \in PointIds : worker[j][i].pc # "done"
                                                /\ worker'[j][i].pc = "done"}
            IN  /\ jobs'[j].progress = jobs[j].progress + Cardinality(settling)
                /\ Cardinality(settling) <= 1
                /\ \A i \in settling : worker[j][i].pc = "running"]_vars

\* Tasks have settled out of order: a later budget point before an earlier
\* one, one with a solution and one without.
C15_Witness ==
    \E j \in DOMAIN jobs :
        /\ \E i \in Settled(j) : \E k \in PointIds \ Settled(j) : k < i
        /\ Solved(j) # {}
        /\ Settled(j) \ Solved(j) # {}
        /\ jobs[j].progress = Cardinality(Settled(j))

Building == coef.pc \in {"pairs", "model"}

\* C16: every key (s1, s2) of the duplication map has s1 <= s2 in the order
\* of the station names and both names in the cleaned station table, so
\* (A,B) and (B,A) are never both keys, whatever the order and orientation
\* of the pair rows; a row that names a station outside the table leaves the
\* map as it is, and the loop goes on.
C16_PairKeysCanonical ==
    /\ [](Building =>
            /\ \A key \in DOMAIN coef.d_ij :
                  /\ StationRank[key[1]] <= StationRank[key[2]]
                  /\ key[1] \in DOMAIN coef.cumes
                  /\ key[2] \in DOMAIN coef.cumes
            /\ \A a, b \in DOMAIN StationRank :
                  (<<a, b>> \in DOMAIN coef.d_ij /\ <<b, a>> \in DOMAIN coef.d_ij)
                    => a = b)
    /\ [][(Building /\ coef'.rows = coef.rows + 1
             /\ {coef'.row.Station1, coef'.row.Station2}
                    \ DOMAIN coef.cumes # {})
            => /\ coef'.d_ij = coef.d_ij
               /\ coef'.pc = "pairs"]_vars

\* The one row read so far named the pair as (B, A), and the map holds it
\* under the ordered key (A, B).
C16_Witness ==
    /\ coef.pc = "pairs"
    /\ coef.rows = 1
    /\ coef.row.Station1 = "B"
    /\ coef.row.Station2 = "A"
    /\ DOMAIN coef.d_ij = {<<"A", "B">>}

\* C17: in every state, and so in every state a poll can observe and in
\* every status response, the error of a job is non-null exactly when its
\* status is Error: no job is Pending, PreparingData, GeneratingCurve or
\* Completed with an error message, and none is Error without one.
C17_ErrorIffStatusError ==
    /\ \A j \in DOMAIN jobs :
          jobs[j].error # None <=> jobs[j].status = "Error"
    /\ StatusResponse =>
          (client.body.error # None <=> client.body.status = "Error")

\* A poll, answered with the lock free again, shows a job that the handler of
\* an unexpected exception turned into Error after tasks had run.
C17_Witness ==
    /\ StatusResponse
    /\ job_lock = "free"
    /\ client.body.status = "Error"
    /\ client.body.error = [kind |-> "An unexpected error occurred:"]
    /\ client.body.progress > 0

\* C18: the reach curve only grows: a step adds at most one point, and only
\* when a task settles with a solution; every point of the curve stays on it,
\* unchanged, as often as before (the sort only reorders); and in every state
\* the length of the curve is the number of settled tasks that returned a
\* solution, at most the number of settled tasks, which is at most
\* num_points + 1 and equals progress * num_points.
C18_CurveGrowsAccounted ==
    /\ [](\A j \in DOMAIN jobs :
            /\ Len(jobs[j].reach_curve) = Cardinality(Solved(j))
            /\ Cardinality(Solved(j)) <= Cardinality(Settled(j))
            /\ Cardinality(Settled(j)) <= NumPoints + 1
            /\ Len(jobs[j].reach_curve) <= jobs[j].progress)
    /\ [][\A j \in DOMAIN jobs :
            LET old == jobs[j].reach_curve
                new == jobs'[j].reach_curve
                solving == {i \in PointIds : worker[j][i].pc = "running"
                              /\ worker'[j][i].pc = "done"
                              /\ worker'[j][i].result # None}
            IN  /\ \A p \in Range(old) : Count(new, p) >= Count(old, p)
                /\ Len(new) = Len(old) + Cardinality(solving)
                /\ Len(new) <= Len(old) + 1
                /\ \A i \in solving :
                      Count(new, CurvePoint(worker'[j][i].result))
                        = Count(old, CurvePoint(worker'[j][i].result)) + 1]_vars

\* A curve of three points, two of them equal, beside a task that settled
\* without a solution.
C18_Witness ==
    \E j \in DOMAIN jobs :
        /\ Len(jobs[j].reach_curve) = 3
        /\ Cardinality(Range(jobs[j].reach_curve)) = 2
        /\ Settled(j) \ Solved(j) # {}

\* The curve points of the solutions in ws, in the order of the budget
\* points 0..n.
RECURSIVE PointsInOrder(_, _)
PointsInOrder(ws, n) ==
    IF n < 0 THEN <<>>
    ELSE IF ws[n].pc = "done" /\ ws[n].result # None
         THEN Append(PointsInOrder(ws, n - 1), CurvePoint(ws[n].result))
         ELSE PointsInOrder(ws, n - 1)

DistinctBudgets(curve) ==
    \A k, m \in DOMAIN curve : k # m => curve[k].budget # curve[m].budget

\* C19: the state of a Completed job is a function of what the solver
\* returned for each budget point, so the order in which the workers finished
\* leaves no trace: the status is Completed, progress counts every task,
\* main_result is the result of the maximum-budget point, the curve holds
\* exactly the points of the solutions (each as often as it was returned),
\* and, when the budgets of the points are pairwise distinct, the curve is
\* the one sequence of these points in ascending budget.
C19_FinalStateOrderFree ==
    \A j \in DOMAIN jobs :
        jobs[j].status = "Completed" =>
          LET points == PointsInOrder(worker[j], NumPoints)
          IN  /\ Settled(j) = PointIds
              /\ jobs[j].progress = NumPoints + 1
              /\ jobs[j].error = None
              /\ jobs[j].main_result = worker[j][NumPoints].result
              /\ Len(jobs[j].reach_curve) = Len(points)
              /\ \A p \in Range(points) :
                    Count(jobs[j].reach_curve, p) = Count(points, p)
              /\ DistinctBudgets(points) =>
                    jobs[j].reach_curve = SortByBudget(points)

\* A Completed job with three points of pairwise distinct budgets.
C19_Witness ==
    \E j \in DOMAIN jobs :
        /\ jobs[j].status = "Completed"
        /\ Len(jobs[j].reach_curve) = 3
        /\ DistinctBudgets(jobs[j].reach_curve)
        /\ jobs[j].reach_curve = SortByBudget(PointsInOrder(worker[j], NumPoints))

\* The threads of job j took the step: its flow or one of its tasks moved.
StepOf(j) ==
    j \in DOMAIN jobs /\ (flow'[j] # flow[j] \/ worker'[j] # worker[j])

\* C20: with several jobs in the store, a step of the flow or of a worker
\* of job J changes no JobState but J's, and nothing of the threads of the
\* other jobs; a JobState changes only in a step of its own job; the id
\* start_job returns is in the store, with its flow not yet run, when the
\* response is produced, no id ever leaves the store, and get_job_status
\* answers 404 only for an id that is not in the store, so never for an id
\* that was returned.
C20_JobsIsolated ==
    [][/\ \A j \in DOMAIN jobs :
            /\ StepOf(j) =>
                  \A k \in DOMAIN jobs \ {j} :
                      /\ jobs'[k] = jobs[k]
                      /\ flow'[k] = flow[k]
                      /\ worker'[k] = worker[k]
                      /\ args'[k] = args[k]
            /\ jobs'[j] # jobs[j] => StepOf(j)
       /\ DOMAIN jobs \subseteq DOMAIN jobs'
       /\ \A j \in DOMAIN jobs' \ DOMAIN jobs :
            /\ client'.op = "start_job" /\ client'.code = 200
            /\ client'.body.job_id = j
            /\ flow'[j].pc = "start"
       /\ (client'.pc = "done" /\ client'.op = "start_job" /\ client'.code = 200)
            => client'.body.job_id \in DOMAIN jobs'
       /\ (client'.pc = "done" /\ client'.op = "get_job_status"
              /\ client'.code = 404)
            => client'.job_id \notin DOMAIN jobs']_vars

\* Two jobs generating their curves at once, the first with settled tasks,
\* the second polled under its returned id while its tasks run.
C20_Witness ==
    /\ DOMAIN jobs = JobIds
    /\ StatusResponse
    /\ client.job_id = "id2"
    /\ client.body.status = "Generating reach curve..."
    /\ jobs["id1"].status = "Generating reach curve..."
    /\ jobs["id1"].progress > 0
    /\ Running("id1") # {}
    /\ Running("id2") # {}

====
